---- MODULE Spec2Model ----
(***************************************************************************)
(* Model of main.py of uk_precip_zscore_app: the cached loader get_data    *)
(* and the anomaly pipeline filter_and_roll (rolling sum, per-region /     *)
(* per-day-of-year baseline statistics, z-score, display filter).          *)
(*                                                                         *)
(* A table (pandas DataFrame) is a sequence of rows; a row is a record.    *)
(* A float that may be missing is a record [nan, v]; means, standard       *)
(* deviations and z-scores are kept exact (as the integers they are made   *)
(* of) so that "zero", "undefined" and "infinite" stay distinguishable.    *)
(***************************************************************************)
EXTENDS Integers, Sequences, FiniteSets, TLC

VARIABLES
    source,                   \* the remote file of each region
    pc,                       \* where the script run is: "start", "fetch", "failed", "ready"
    i,                        \* get_data: position of the loop in region_dict
    dfs,                      \* get_data: the frames read so far
    cache,                    \* st.cache_data: << >> or <<the table get_data returned>>
    df,                       \* the module's df: << >> or <<table>>
    submitted,                \* the form was submitted in this run
    regions, years, baseline, window,   \* the arguments of filter_and_roll
    filtered                  \* << >> or <<the table filter_and_roll returned>>

vars == <<source, pc, i, dfs, cache, df,
          submitted, regions, years, baseline, window, filtered>>

-----------------------------------------------------------------------------
(* Bounds of the model *)

\* most rows all the remote files hold together
MaxRows == 3

-----------------------------------------------------------------------------
(* The regions: the first keys of region_dict, in the dict's order *)

region_dict == << "england & wales", "south east england" >>

RegionKeys == { region_dict[k] : k \in 1..Len(region_dict) }

\* position of a region in region_dict (its insertion order)
DictPos(r) == CHOOSE k \in 1..Len(region_dict) : region_dict[k] = r

-----------------------------------------------------------------------------
(* Calendar: what parse_dates and the .dt accessors compute.  A Timestamp  *)
(* is the number of days since 1970-01-01.                                 *)

IsLeap(y) == (y % 4 = 0 /\ y % 100 # 0) \/ (y % 400 = 0)

DaysInYear(y) == IF IsLeap(y) THEN 366 ELSE 365

DaysInMonth(y, m) ==
    IF m = 2 THEN (IF IsLeap(y) THEN 29 ELSE 28)
    ELSE IF m \in {4, 6, 9, 11} THEN 30 ELSE 31

RECURSIVE DaysBeforeYear(_)
DaysBeforeYear(y) == IF y <= 1970 THEN 0 ELSE DaysBeforeYear(y - 1) + DaysInYear(y - 1)

RECURSIVE DaysBeforeMonth(_, _)
DaysBeforeMonth(y, m) == IF m <= 1 THEN 0 ELSE DaysBeforeMonth(y, m - 1) + DaysInMonth(y, m - 1)

\* parse_dates=[0]: the text <<y, m, d>> of a file's Date column as a Timestamp
ParseDate(ymd) == DaysBeforeYear(ymd[1]) + DaysBeforeMonth(ymd[1], ymd[2]) + ymd[3] - 1

RECURSIVE YearFrom(_, _)
YearFrom(t, y) == IF t < DaysInYear(y) THEN y ELSE YearFrom(t - DaysInYear(y), y + 1)

\* .dt.year
dt_year(t) == YearFrom(t, 1970)

\* .dt.day_of_year (1..366)
dt_day_of_year(t) == t - DaysBeforeYear(dt_year(t)) + 1

RECURSIVE MonthFrom(_, _, _)
MonthFrom(y, n, m) ==
    IF n <= DaysInMonth(y, m) THEN m ELSE MonthFrom(y, n - DaysInMonth(y, m), m + 1)

\* .dt.month
dt_month(t) == MonthFrom(dt_year(t), dt_day_of_year(t), 1)

-----------------------------------------------------------------------------
(* The remote files.  A file is a sequence of [Date, Value] lines in        *)
(* ascending date order, one line per date, as the HadUKP daily series are. *)

\* the dates a file may hold (text of the Date column)
FileDates == { <<2019, 1, 1>>, <<2019, 12, 29>>, <<2020, 1, 1>>, <<2021, 1, 1>> }

\* the precipitation totals a line may hold
FileValues == {1, 2}

ModelYears == { ymd[1] : ymd \in FileDates }

\* the Timestamp of each date text, and the calendar fields of each Timestamp
\* (ParseDate and the .dt accessors, tabulated once)
Timestamp == [ymd \in FileDates |-> ParseDate(ymd)]

Calendar ==
    [t \in { Timestamp[ymd] : ymd \in FileDates } |->
        [doy |-> dt_day_of_year(t), month |-> dt_month(t), year |-> dt_year(t)]]

\* the lines of a file holding the dates ds with the values val, oldest first
RECURSIVE FileLines(_, _)
FileLines(ds, val) ==
    IF ds = {} THEN << >>
    ELSE LET last == CHOOSE x \in ds : \A y \in ds : Timestamp[y] <= Timestamp[x]
         IN  Append(FileLines(ds \ {last}, val), [Date |-> last, Value |-> val[last]])

Files == UNION { { FileLines(ds, val) : val \in [ds -> FileValues] } : ds \in SUBSET FileDates }

RECURSIVE SumLen(_, _)
SumLen(f, k) == IF k = 0 THEN 0 ELSE Len(f[region_dict[k]]) + SumLen(f, k - 1)

Sources == { f \in [RegionKeys -> Files] : SumLen(f, Len(region_dict)) <= MaxRows }

-----------------------------------------------------------------------------
(* Floats that may be missing *)

NaN == [nan |-> TRUE, v |-> 0]

Num(x) == [nan |-> FALSE, v |-> x]

\* the elements of a sequence
Range(s) == { s[k] : k \in 1..Len(s) }

RECURSIVE SumOver(_, _)
\* sum of f[k] for k in the finite set ks
SumOver(ks, f) ==
    IF ks = {} THEN 0
    ELSE LET k == CHOOSE x \in ks : TRUE IN f[k] + SumOver(ks \ {k}, f)

-----------------------------------------------------------------------------
(* get_data: one frame per region, in region_dict order, concatenated *)

\* pd.read_csv(...).rename(...) and _tmp['region'] = r : the frame of one file
ReadCsv(r, file) ==
    [k \in 1..Len(file) |->
        [region |-> r, date |-> Timestamp[file[k].Date], precip |-> file[k].Value]]

RECURSIVE Concat(_)
\* pd.concat(dfs)
Concat(frames) ==
    IF frames = << >> THEN << >> ELSE frames[1] \o Concat(Tail(frames))

\* df['doy'], df['month'], df['year'] from df['date']
WithCalendar(t) ==
    [k \in 1..Len(t) |->
        [region |-> t[k].region, date |-> t[k].date, precip |-> t[k].precip,
         doy |-> Calendar[t[k].date].doy, month |-> Calendar[t[k].date].month,
         year |-> Calendar[t[k].date].year]]

\* the table get_data returns when every read succeeds
get_data(files) ==
    WithCalendar(Concat([k \in 1..Len(region_dict) |->
                            ReadCsv(region_dict[k], files[region_dict[k]])]))

-----------------------------------------------------------------------------
(* filter_and_roll *)

\* mutant: the retained rows taken region by region in the order of the list
IsIn_ListOrder(t, regs) ==
    Concat([k \in 1..Len(regs) |-> SelectSeq(t, LAMBDA row : row.region = regs[k])])

\* df.loc[df['region'].isin(regions)]
IsIn(t, regs) == SelectSeq(t, LAMBDA row : row.region \in Range(regs))

\* Series.between(lo, hi, inclusive='both')
Between(y, range) == range[1] <= y /\ y <= range[2]

\* mutant: window/3 rounded up
MinPeriods_Ceil(W) == (W + 2) \div 3

\* mutant: a full window of observations is required
MinPeriods_Full(W) == W

\* int(window/3)
MinPeriods(W) == W \div 3

\* mutant: the window taken over the whole table, whatever the region
WindowRows_AllRegions(t, r, d, W) ==
    { k \in 1..Len(t) : d - W < t[k].date /\ t[k].date <= d }

\* mutant: the window closed on the left, [d - W, d]
WindowRows_ClosedLeft(t, r, d, W) ==
    { k \in 1..Len(t) : t[k].region = r /\ d - W <= t[k].date /\ t[k].date <= d }

\* the rows of region r that .rolling(f'{window}d') puts in the window ending at d
WindowRows(t, r, d, W) ==
    { k \in 1..Len(t) : t[k].region = r /\ d - W < t[k].date /\ t[k].date <= d }

\* .groupby('region')['precip'].rolling(f'{window}d', min_periods=int(window/3)).sum()
\* at index (r, d)
RollingAt(t, r, d, W) ==
    LET win == WindowRows(t, r, d, W)
    IN  IF Cardinality(win) >= MinPeriods(W)
        THEN Num(SumOver(win, [k \in win |-> t[k].precip]))
        ELSE NaN

\* the Series `rolling`: one entry per (region, date) of the table
rolling(t, W) ==
    { [region |-> t[k].region, date |-> t[k].date,
       rolling_sum |-> RollingAt(t, t[k].region, t[k].date, W)] : k \in 1..Len(t) }

\* The order of an inner merge's result.  A pandas that follows the documented
\* order keeps the left rows' order; an older pandas groups the left rows by join
\* key, the keys in order of first appearance on the left.  key[k] is the join key
\* of left row k; the result lists the indices of the left rows.
RECURSIVE GroupedOrder(_, _, _)
GroupedOrder(key, todo, n) ==
    IF todo = {} THEN << >>
    ELSE LET first == CHOOSE k \in todo : \A j \in todo : k <= j
             same  == { k \in todo : key[k] = key[first] }
             grp   == SelectSeq([k \in 1..n |-> k], LAMBDA k : k \in same)
         IN  grp \o GroupedOrder(key, todo \ same, n)

\* the script is run with a pandas that orders an inner merge as documented
DocumentedOrder == TRUE

MergeOrder(key, keeps_left_order) ==
    LET n == Len(key)
    IN  IF keeps_left_order THEN [k \in 1..n |-> k]
        ELSE GroupedOrder(key, 1..n, n)

\* df.merge(rolling, left_on=['region', 'date'], right_index=True)
MergeRolling(t, roll, keeps_left_order) ==
    LET key   == [k \in 1..Len(t) |-> <<t[k].region, t[k].date>>]
        order == MergeOrder(key, keeps_left_order)
        hit   == SelectSeq(order, LAMBDA k :
                    \E e \in roll : e.region = t[k].region /\ e.date = t[k].date)
    IN  [j \in 1..Len(hit) |->
            LET row == t[hit[j]]
                e   == CHOOSE e \in roll : e.region = row.region /\ e.date = row.date
            IN  [region |-> row.region, date |-> row.date, precip |-> row.precip,
                 doy |-> row.doy, month |-> row.month, year |-> row.year,
                 rolling_sum |-> e.rolling_sum]]

\* mutant: the baseline range is not applied
BaselineRows_All(t, base) == 1..Len(t)

\* idx = df.year.between(*baseline, inclusive='both') ; df.loc[idx]
BaselineRows(t, base) == { k \in 1..Len(t) : Between(t[k].year, base) }

\* .agg(['mean', 'std']) of one group: NaN values are skipped.  With n values of
\* sum S and sum of squares Q, the mean is S/n (kept as num/den) and the sample
\* standard deviation is sqrt((n*Q - S*S) / (n*(n-1))) (kept as sqrt(num/den));
\* the mean is missing for n = 0 and the deviation for n < 2.
GroupAgg(t, grp) ==
    LET vals == { k \in grp : ~t[k].rolling_sum.nan }
        n    == Cardinality(vals)
        S    == SumOver(vals, [k \in vals |-> t[k].rolling_sum.v])
        Q    == SumOver(vals, [k \in vals |-> t[k].rolling_sum.v * t[k].rolling_sum.v])
    IN  [mean |-> IF n = 0 THEN [nan |-> TRUE, num |-> 0, den |-> 1]
                  ELSE [nan |-> FALSE, num |-> S, den |-> n],
         std  |-> IF n < 2 THEN [nan |-> TRUE, num |-> 0, den |-> 1]
                  ELSE [nan |-> FALSE, num |-> n * Q - S * S, den |-> n * (n - 1)]]

\* base_period: one row per (region, doy) among the rows of the baseline years
base_period(t, base) ==
    LET rows == BaselineRows(t, base)
    IN  { LET agg == GroupAgg(t, { k \in rows : t[k].region = key[1] /\ t[k].doy = key[2] })
          IN  [region |-> key[1], doy |-> key[2],
               base_mean_rolling_sum |-> agg.mean, base_std_rolling_sum |-> agg.std]
          : key \in { <<t[k].region, t[k].doy>> : k \in rows } }

\* (rolling_sum - base_mean_rolling_sum) / base_std_rolling_sum in IEEE arithmetic:
\* NaN if an operand is NaN; over a zero deviation, NaN for 0/0 and an infinity of
\* the numerator's sign otherwise.  A finite z is (top/n) / sqrt(var_num/var_den).
ZScore(x, mean, std) ==
    LET top == IF x.nan \/ mean.nan THEN 0 ELSE mean.den * x.v - mean.num
    IN  IF x.nan \/ mean.nan \/ std.nan
        THEN [kind |-> "nan", top |-> 0, n |-> 1, var_num |-> 0, var_den |-> 1]
        ELSE IF std.num = 0
        THEN [kind |-> IF top = 0 THEN "nan" ELSE IF top > 0 THEN "inf" ELSE "-inf",
              top |-> 0, n |-> 1, var_num |-> 0, var_den |-> 1]
        ELSE [kind |-> "num", top |-> top, n |-> mean.den,
              var_num |-> std.num, var_den |-> std.den]

\* mutant: a left merge, the rows without a baseline row kept with missing statistics
MergeBase_Left(t, base, keeps_left_order) ==
    LET missing == [nan |-> TRUE, num |-> 0, den |-> 1]
    IN  [j \in 1..Len(t) |->
            LET row == t[j]
                hit == { b \in base : b.region = row.region /\ b.doy = row.doy }
                mean == IF hit = {} THEN missing
                        ELSE (CHOOSE b \in hit : TRUE).base_mean_rolling_sum
                std  == IF hit = {} THEN missing
                        ELSE (CHOOSE b \in hit : TRUE).base_std_rolling_sum
            IN  [region |-> row.region, date |-> row.date, precip |-> row.precip,
                 doy |-> row.doy, month |-> row.month, year |-> row.year,
                 rolling_sum |-> row.rolling_sum,
                 base_mean_rolling_sum |-> mean,
                 base_std_rolling_sum |-> std,
                 z |-> ZScore(row.rolling_sum, mean, std)]]

\* df.merge(base_period, on=['region', 'doy']) and df['z'] = ...
MergeBase(t, base, keeps_left_order) ==
    LET key   == [k \in 1..Len(t) |-> <<t[k].region, t[k].doy>>]
        order == MergeOrder(key, keeps_left_order)
        hit   == SelectSeq(order, LAMBDA k :
                    \E b \in base : b.region = t[k].region /\ b.doy = t[k].doy)
    IN  [j \in 1..Len(hit) |->
            LET row == t[hit[j]]
                b   == CHOOSE b \in base : b.region = row.region /\ b.doy = row.doy
            IN  [region |-> row.region, date |-> row.date, precip |-> row.precip,
                 doy |-> row.doy, month |-> row.month, year |-> row.year,
                 rolling_sum |-> row.rolling_sum,
                 base_mean_rolling_sum |-> b.base_mean_rolling_sum,
                 base_std_rolling_sum |-> b.base_std_rolling_sum,
                 z |-> ZScore(row.rolling_sum, b.base_mean_rolling_sum,
                              b.base_std_rolling_sum)]]

\* df.loc[df.year.between(*years)]
Display(t, yrs) == SelectSeq(t, LAMBDA row : Between(row.year, yrs))

\* the table after the first merge: the retained regions' rows with rolling_sum
Rolled(t, regs, W, keeps_left_order) ==
    LET kept == IsIn(t, regs)
    IN  MergeRolling(kept, rolling(kept, W), keeps_left_order)

\* the table after the second merge, before the display filter
Scored(t, regs, base, W, keeps_left_order) ==
    LET rolled == Rolled(t, regs, W, keeps_left_order)
    IN  MergeBase(rolled, base_period(rolled, base), keeps_left_order)

\* filter_and_roll(df, regions, years, baseline, window): it validates nothing,
\* raises nothing of its own and returns the table alone
filter_and_roll(t, regs, yrs, base, W, keeps_left_order) ==
    Display(Scored(t, regs, base, W, keeps_left_order), yrs)

-----------------------------------------------------------------------------
(* The arguments a submission may carry *)

\* lists of distinct regions, in the order they were picked
RegionLists ==
    { << >> } \cup { <<r>> : r \in RegionKeys }
              \cup { <<r, q>> : <<r, q>> \in { p \in RegionKeys \X RegionKeys : p[1] # p[2] } }

\* options=list(range(df.year.min(), df.year.max()+1)) of the two select_sliders
YearOptions(t) ==
    { y \in ModelYears : /\ \E k \in 1..Len(t) : t[k].year <= y
                         /\ \E k \in 1..Len(t) : y <= t[k].year }

\* a select_slider returns its two ends in ascending order
YearRanges(t) == { p \in YearOptions(t) \X YearOptions(t) : p[1] <= p[2] }

\* the display ranges tried: the whole span of the table, or its latest year alone
DisplayRanges(t) ==
    { p \in YearRanges(t) : /\ \A y \in YearOptions(t) : y <= p[2]
                            /\ \/ p[1] = p[2]
                               \/ \A y \in YearOptions(t) : p[1] <= y }

\* 7 is the slider's minimum; 3 is a shorter window a direct caller may pass
Windows == {3, 7}

-----------------------------------------------------------------------------
(* The script *)

Init ==
    /\ source \in Sources
    /\ pc = "start"
    /\ i = 1
    /\ dfs = << >>
    /\ cache = << >>
    /\ df = << >>
    /\ submitted = FALSE
    /\ regions = << >>
    /\ years = <<0, 0>>
    /\ baseline = <<0, 0>>
    /\ window = 0
    /\ filtered = << >>

request == <<submitted, regions, years, baseline, window, filtered>>

\* df = get_data(region_dict) with the result already cached
CacheHit ==
    /\ pc = "start"
    /\ cache # << >>
    /\ df' = cache
    /\ pc' = "ready"
    /\ UNCHANGED <<source, i, dfs, cache, request>>

\* df = get_data(region_dict) with nothing cached: the body of get_data starts
CacheMiss ==
    /\ pc = "start"
    /\ cache = << >>
    /\ pc' = "fetch"
    /\ i' = 1
    /\ dfs' = << >>
    /\ UNCHANGED <<source, cache, df, request>>

\* one turn of the loop: the file of region_dict[i] is fetched and parsed
ReadOk ==
    /\ pc = "fetch"
    /\ i <= Len(region_dict)
    /\ dfs' = Append(dfs, ReadCsv(region_dict[i], source[region_dict[i]]))
    /\ i' = i + 1
    /\ UNCHANGED <<source, pc, cache, df, request>>

\* mutant: the frames read before the failure are stored as the result
ReadFails_KeepsPartial ==
    /\ pc = "fetch"
    /\ i <= Len(region_dict)
    /\ pc' = "failed"
    /\ cache' = <<WithCalendar(Concat(dfs))>>
    /\ dfs' = << >>
    /\ UNCHANGED <<source, i, df, request>>

\* pd.read_csv raises: the exception leaves get_data and ends the script run;
\* the frames read so far are lost and nothing is stored or assigned (i stays
\* where the loop failed)
ReadFails ==
    /\ pc = "fetch"
    /\ i <= Len(region_dict)
    /\ pc' = "failed"
    /\ dfs' = << >>
    /\ UNCHANGED <<source, i, cache, df, request>>

\* after the loop: concat, the calendar columns, return; st.cache_data stores
\* the returned table
Return ==
    /\ pc = "fetch"
    /\ i > Len(region_dict)
    /\ LET table == WithCalendar(Concat(dfs))
       IN  /\ cache' = <<table>>
           /\ df' = <<table>>
    /\ pc' = "ready"
    /\ dfs' = << >>
    /\ i' = 1
    /\ UNCHANGED <<source, request>>

\* the form is submitted: filtered = filter_and_roll(df, regions, years, baseline, window).
\* The sliders are built from df.year.min() and df.year.max(), which an empty
\* table does not have: the script then stops before the form.
Submit ==
    /\ pc = "ready"
    /\ ~submitted
    /\ df[1] # << >>
    /\ \E regs \in RegionLists, yrs \in DisplayRanges(df[1]), base \in YearRanges(df[1]),
          W \in Windows :
          /\ regions' = regs
          /\ years' = yrs
          /\ baseline' = base
          /\ window' = W
          /\ filtered' = <<filter_and_roll(df[1], regs, yrs, base, W, DocumentedOrder)>>
    /\ submitted' = TRUE
    /\ UNCHANGED <<source, pc, i, dfs, cache, df>>

\* the script runs again (any interaction, or a reload after a failure):
\* its variables start afresh, the cache stays
Rerun ==
    /\ pc \in {"ready", "failed"}
    /\ pc' = "start"
    /\ df' = << >>
    /\ submitted' = FALSE
    /\ regions' = << >>
    /\ years' = <<0, 0>>
    /\ baseline' = <<0, 0>>
    /\ window' = 0
    /\ filtered' = << >>
    /\ UNCHANGED <<source, i, dfs, cache>>

Next ==
    \/ CacheHit
    \/ CacheMiss
    \/ ReadOk
    \/ ReadFails
    \/ Return
    \/ Submit
    \/ Rerun

Spec == Init /\ [][Next]_vars

-----------------------------------------------------------------------------
(* What the claims speak of, read off the files themselves *)

\* the run has called filter_and_roll and holds its result
Scoring == pc = "ready" /\ submitted /\ filtered # << >>

\* the observations of region r: its file's lines, by Timestamp
Obs(files, r) ==
    { [date |-> Timestamp[files[r][k].Date], precip |-> files[r][k].Value]
        : k \in 1..Len(files[r]) }

\* the observations of region r dated in the half-open interval (d - W, d]
ObsInWindow(files, r, d, W) == { o \in Obs(files, r) : d - W < o.date /\ o.date <= d }

RECURSIVE SumPrecip(_)
SumPrecip(os) ==
    IF os = {} THEN 0
    ELSE LET o == CHOOSE x \in os : TRUE IN o.precip + SumPrecip(os \ {o})

\* W/3 rounded down
FloorThird(W) == CHOOSE n \in 0..W : 3 * n <= W /\ W < 3 * n + 3

\* the table with rolling_sum that the submitted call worked on
RolledNow == Rolled(df[1], regions, window, DocumentedOrder)

\* every row of the table out carries the rolling_sum its (region, date) has in rolled
CarriesRolled(out, rolled) ==
    \A k \in 1..Len(out) :
        \E j \in 1..Len(rolled) :
            /\ rolled[j].region = out[k].region
            /\ rolled[j].date = out[k].date
            /\ rolled[j].rolling_sum = out[k].rolling_sum

-----------------------------------------------------------------------------
\* C1: wherever filter_and_roll defines rolling_sum for (r, d), it is the sum of
\* precip over exactly the observations of region r present in the files with a
\* date in (d - window days, d]; gaps add nothing and do not widen the interval.
C1_RollingSumIsWindowSum ==
    Scoring =>
        LET rolled == RolledNow
        IN  /\ CarriesRolled(filtered[1], rolled)
            /\ \A k \in 1..Len(rolled) :
                  LET row == rolled[k]
                  IN  ~row.rolling_sum.nan =>
                        row.rolling_sum.v =
                            SumPrecip(ObsInWindow(source, row.region, row.date, window))

\* C1 witness: a returned row whose rolling_sum adds up several observations
\* of a window with a gap, its region holding an older observation outside it
C1_Witness ==
    /\ Scoring
    /\ \E k \in 1..Len(filtered[1]) :
          LET row == filtered[1][k]
              win == ObsInWindow(source, row.region, row.date, window)
          IN  /\ ~row.rolling_sum.nan
              /\ Cardinality(win) >= 2
              /\ Cardinality(win) < window
              /\ \E o \in Obs(source, row.region) : o.date <= row.date - window

-----------------------------------------------------------------------------
\* the baseline group of (r, doy): the rows of rolled in the baseline years
GroupOf(rolled, r, doy, base) ==
    { j \in 1..Len(rolled) :
        /\ rolled[j].region = r
        /\ rolled[j].doy = doy
        /\ base[1] <= rolled[j].year
        /\ rolled[j].year <= base[2] }

\* C2: rolling_sum is defined for (r, d) exactly when region r has at least
\* floor(window/3) observations dated in (d - window days, d]; and a row whose
\* rolling_sum is missing adds nothing to a baseline mean or standard deviation:
\* each is taken over the defined rolling sums of the group alone.
C2_MinPeriodsAndSkipMissing ==
    Scoring =>
        LET rolled == RolledNow
            out    == filtered[1]
        IN  /\ CarriesRolled(out, rolled)
            /\ \A k \in 1..Len(rolled) :
                  LET row == rolled[k]
                  IN  ~row.rolling_sum.nan <=>
                        Cardinality(ObsInWindow(source, row.region, row.date, window))
                            >= FloorThird(window)
            /\ \A k \in 1..Len(out) :
                  LET grp  == GroupOf(rolled, out[k].region, out[k].doy, baseline)
                      defd == { j \in grp : ~rolled[j].rolling_sum.nan }
                      n    == Cardinality(defd)
                      S    == SumOver(defd, [j \in defd |-> rolled[j].rolling_sum.v])
                      Q    == SumOver(defd, [j \in defd |->
                                  rolled[j].rolling_sum.v * rolled[j].rolling_sum.v])
                      mean == out[k].base_mean_rolling_sum
                      std  == out[k].base_std_rolling_sum
                  IN  /\ mean.nan <=> n = 0
                      /\ ~mean.nan => mean.num * n = S * mean.den
                      /\ std.nan <=> n < 2
                      /\ ~std.nan => std.num * n * (n - 1) = (n * Q - S * S) * std.den

\* C2 witness: a returned row whose baseline group holds a row with a missing
\* rolling_sum beside one with a defined rolling_sum
C2_Witness ==
    /\ Scoring
    /\ \E k \in 1..Len(filtered[1]) :
          LET rolled == RolledNow
              grp    == GroupOf(rolled, filtered[1][k].region, filtered[1][k].doy, baseline)
          IN  /\ \E j \in grp : rolled[j].rolling_sum.nan
              /\ \E j \in grp : ~rolled[j].rolling_sum.nan
              /\ ~filtered[1][k].base_mean_rolling_sum.nan

-----------------------------------------------------------------------------
\* the window ending at d reaches back before the first observation of region r
PartialWindow(files, r, d, W) ==
    \A o \in Obs(files, r) : d - W + 1 < o.date

\* C3 as claimed: a date whose window reaches back before its region's first
\* observation never gets a rolling_sum.
C3_PartialWindowUndefined ==
    Scoring =>
        LET rolled == RolledNow
        IN  \A k \in 1..Len(rolled) :
                PartialWindow(source, rolled[k].region, rolled[k].date, window)
                    => rolled[k].rolling_sum.nan

\* C3 amended: at such a date rolling_sum is missing exactly while the region
\* has fewer than floor(window/3) observations up to and including the date; from
\* then on it is the sum over the partly covered window.
C3_PartialWindowNeedsMinCount ==
    Scoring =>
        LET rolled == RolledNow
        IN  \A k \in 1..Len(rolled) :
                LET row  == rolled[k]
                    upto == { o \in Obs(source, row.region) : o.date <= row.date }
                IN  PartialWindow(source, row.region, row.date, window) =>
                        /\ row.rolling_sum.nan <=> Cardinality(upto) < FloorThird(window)
                        /\ ~row.rolling_sum.nan => row.rolling_sum.v = SumPrecip(upto)

\* C3 witness: returned rows of partly covered windows, one with a missing and
\* one with a defined rolling_sum
C3_Witness ==
    /\ Scoring
    /\ \E k, j \in 1..Len(filtered[1]) :
          /\ PartialWindow(source, filtered[1][k].region, filtered[1][k].date, window)
          /\ PartialWindow(source, filtered[1][j].region, filtered[1][j].date, window)
          /\ filtered[1][k].rolling_sum.nan
          /\ ~filtered[1][j].rolling_sum.nan
          /\ window >= 7

-----------------------------------------------------------------------------
(* Other inputs, to compare a run with *)

DatesOf(file) == { file[k].Date : k \in 1..Len(file) }

\* the files with one more line, of date ymd and value v, in the file of region r
AddLine(files, r, ymd, v) ==
    LET ds  == DatesOf(files[r])
        val == [d \in ds \cup {ymd} |->
                  IF d = ymd THEN v
                  ELSE files[r][CHOOSE k \in 1..Len(files[r]) : files[r][k].Date = d].Value]
    IN  [files EXCEPT ![r] = FileLines(ds \cup {ymd}, val)]

\* the observations one could add to the files: <<region, date text, value>>
Additions(files) ==
    { a \in RegionKeys \X FileDates \X FileValues : a[2] \notin DatesOf(files[a[1]]) }

\* the addition a falls in the trailing window of a baseline-year observation
\* of its region
FeedsBaseline(files, a, base, W) ==
    \E o \in Obs(files, a[1]) :
        /\ base[1] <= Calendar[o.date].year
        /\ Calendar[o.date].year <= base[2]
        /\ o.date - W < Timestamp[a[2]]
        /\ Timestamp[a[2]] <= o.date

OutsideYears(a, base) ==
    Calendar[Timestamp[a[2]]].year < base[1] \/ Calendar[Timestamp[a[2]]].year > base[2]

\* the baseline statistics the submitted call would compute from the files
BaseStats(files) ==
    base_period(Rolled(get_data(files), regions, window, DocumentedOrder), baseline)

\* C4 as claimed: adding an observation whose year lies outside the baseline
\* range changes no base_mean and no base_std of any (region, day_of_year).
C4_OutsideYearsNeverMatter ==
    Scoring =>
        LET stats == BaseStats(source)
        IN  \A a \in Additions(source) :
                OutsideYears(a, baseline) =>
                    BaseStats(AddLine(source, a[1], a[2], a[3])) = stats

\* C4 amended: base_mean and base_std of (r, doy) are taken over the rows of
\* region r with that day_of_year and a year in the baseline range, and an added
\* observation of a year outside the range changes none of them unless it is
\* dated within the trailing window (d - window, d] of a baseline-year row of its
\* own region (whose rolling_sum it then enters).  (The display range enters no
\* baseline statistic: the additions are tried once for each table, regions,
\* window and baseline, in the state that displays a single year.)
C4_OutsideYearsMatterOnlyThroughWindow ==
    (Scoring /\ years[1] = years[2]) =>
        LET stats == BaseStats(source)
        IN  /\ \A b \in stats :
                  \E k \in 1..Len(df[1]) :
                      /\ df[1][k].region = b.region
                      /\ df[1][k].doy = b.doy
                      /\ Between(df[1][k].year, baseline)
            /\ \A k \in 1..Len(filtered[1]) :
                  \E b \in stats :
                      /\ b.region = filtered[1][k].region
                      /\ b.doy = filtered[1][k].doy
                      /\ b.base_mean_rolling_sum = filtered[1][k].base_mean_rolling_sum
                      /\ b.base_std_rolling_sum = filtered[1][k].base_std_rolling_sum
            /\ \A a \in Additions(source) :
                  (OutsideYears(a, baseline) /\ ~FeedsBaseline(source, a, baseline, window))
                      => BaseStats(AddLine(source, a[1], a[2], a[3])) = stats

\* C4 witness: a returned row with a defined base_mean, and an observation of the
\* same region and day_of_year, of a year outside the baseline range, to add
C4_Witness ==
    /\ Scoring
    /\ years[1] = years[2]
    /\ \E k \in 1..Len(filtered[1]), a \in Additions(source) :
          /\ ~filtered[1][k].base_mean_rolling_sum.nan
          /\ a[1] = filtered[1][k].region
          /\ Calendar[Timestamp[a[2]]].doy = filtered[1][k].doy
          /\ OutsideYears(a, baseline)
          /\ ~FeedsBaseline(source, a, baseline, window)

-----------------------------------------------------------------------------
\* the observations of the retained regions dated in the display years, as
\* <<region, Timestamp>>
Displayed(files, regs, yrs) ==
    UNION { { <<r, o.date>> : o \in { x \in Obs(files, r) :
                  yrs[1] <= Calendar[x.date].year /\ Calendar[x.date].year <= yrs[2] } }
            : r \in Range(regs) }

\* region r has an observation of the day_of_year of Timestamp t in the baseline years
HasBaseline(files, r, t, base) ==
    \E o \in Obs(files, r) :
        /\ Calendar[o.date].doy = Calendar[t].doy
        /\ base[1] <= Calendar[o.date].year
        /\ Calendar[o.date].year <= base[2]

Keys(out) == { <<out[k].region, out[k].date>> : k \in 1..Len(out) }

\* C5 as claimed: a displayed row whose base_std is zero or missing is returned
\* with z missing, whatever rolling_sum - base_mean is; z is a number only over
\* a base_std above zero.
C5_ZeroStdGivesMissingZ ==
    Scoring =>
        LET out == filtered[1]
        IN  /\ \A p \in Displayed(source, regions, years) :
                  HasBaseline(source, p[1], p[2], baseline) => p \in Keys(out)
            /\ \A k \in 1..Len(out) :
                  LET std == out[k].base_std_rolling_sum
                  IN  /\ (std.nan \/ std.num = 0) => out[k].z.kind = "nan"
                      /\ out[k].z.kind # "nan" =>
                            (out[k].z.kind = "num" /\ ~std.nan /\ std.num > 0)

-----------------------------------------------------------------------------
\* the displayed observations that have no baseline statistic
Dropped(files, regs, yrs, base) ==
    { p \in Displayed(files, regs, yrs) : ~HasBaseline(files, p[1], p[2], base) }

\* the rows with no baseline statistic are absent from the returned table
NoBaselineAbsent ==
    LET out == filtered[1]
    IN  /\ Keys(out) = Displayed(source, regions, years)
                          \ Dropped(source, regions, years, baseline)
        /\ Len(out) = Cardinality(Keys(out))
        /\ \A k \in 1..Len(out) :
              \/ out[k].z.kind # "num"
              \/ /\ ~out[k].rolling_sum.nan
                 /\ ~out[k].base_mean_rolling_sum.nan
                 /\ ~out[k].base_std_rolling_sum.nan

\* C6 as claimed: the rows with no baseline statistic are absent and their number
\* is reported.  The returned table is all filter_and_roll hands its caller, so
\* the number is reported only if that table settles it: two calls returning the
\* same table must have dropped the same number of rows.
C6_DroppedAndCounted ==
    Scoring =>
        /\ NoBaselineAbsent
        /\ \A a \in Additions(source) :
              LET files == AddLine(source, a[1], a[2], a[3])
              IN  filter_and_roll(get_data(files), regions, years, baseline, window,
                                  DocumentedOrder) = filtered[1]
                  => Cardinality(Dropped(files, regions, years, baseline))
                        = Cardinality(Dropped(source, regions, years, baseline))

\* C6 amended: the returned table holds exactly the displayed rows of the retained
\* regions whose (region, day_of_year) has a baseline row, once each and none with
\* a made-up z; the rows without are dropped silently.
C6_DroppedSilently ==
    Scoring => NoBaselineAbsent

\* C6 witness: a call that returns some rows and has dropped others
C6_Witness ==
    /\ Scoring
    /\ filtered[1] # << >>
    /\ Dropped(source, regions, years, baseline) # {}

-----------------------------------------------------------------------------
\* position of region r in the list regs
ListPos(regs, r) == CHOOSE k \in 1..Len(regs) : regs[k] = r

\* C7 as claimed: rows of one region ascend by date, and the regions come in the
\* order of the regions argument.
C7_RequestOrder ==
    Scoring =>
        LET out == filtered[1]
        IN  \A k, j \in 1..Len(out) :
                k < j =>
                    IF out[k].region = out[j].region
                    THEN out[k].date < out[j].date
                    ELSE ListPos(regions, out[k].region) < ListPos(regions, out[j].region)

\* C7 amended: the regions come in the order of the loaded table (that of
\* region_dict), however the regions argument lists them.  Rows of one region
\* ascend by date under a pandas whose inner merge keeps the left order; under
\* one that groups by join key they come grouped by day_of_year, ascending by
\* date within one day_of_year.
C7_LoadedOrder ==
    Scoring =>
        LET out == filtered[1]
            old == filter_and_roll(df[1], regions, years, baseline, window, FALSE)
        IN  /\ \A k, j \in 1..Len(out) :
                  k < j =>
                      IF out[k].region = out[j].region
                      THEN out[k].date < out[j].date
                      ELSE DictPos(out[k].region) < DictPos(out[j].region)
            /\ Range(old) = Range(out)
            /\ Len(old) = Len(out)
            /\ \A k, j \in 1..Len(old) :
                  k < j =>
                      IF old[k].region # old[j].region
                      THEN DictPos(old[k].region) < DictPos(old[j].region)
                      ELSE IF old[k].doy = old[j].doy
                      THEN /\ old[k].date < old[j].date
                           /\ \A m \in k..j : old[m].doy = old[k].doy
                      ELSE TRUE

\* C7 witness: the regions asked for against the order of region_dict, rows of
\* both returned, two of them of one region
C7_Witness ==
    /\ Scoring
    /\ Len(regions) = 2
    /\ DictPos(regions[1]) > DictPos(regions[2])
    /\ \E k, j, m \in 1..Len(filtered[1]) :
          /\ k # j
          /\ filtered[1][k].region = filtered[1][j].region
          /\ filtered[1][m].region # filtered[1][k].region

-----------------------------------------------------------------------------
\* a request the specification calls invalid
InvalidRequest ==
    \/ regions = << >>
    \/ years[1] > years[2]
    \/ baseline[1] > baseline[2]
    \/ window <= 0

\* C8 as claimed: an invalid request is rejected: no table is returned for it.
C8_InvalidRejected ==
    (pc = "ready" /\ submitted /\ InvalidRequest) => filtered = << >>

-----------------------------------------------------------------------------
\* the orders the regions' frames may be concatenated in
RegionOrders ==
    { o \in [1..Len(region_dict) -> RegionKeys] : \A k, j \in 1..Len(region_dict) :
                                                      o[k] = o[j] => k = j }

\* a table as get_data builds it, the regions' frames in the order o
LoadInOrder(files, o) ==
    WithCalendar(Concat([k \in 1..Len(o) |-> ReadCsv(o[k], files[o[k]])]))

\* the file without its line k
RemoveLine(file, k) == SubSeq(file, 1, k - 1) \o SubSeq(file, k + 1, Len(file))

\* the files after one change to the file of region q: emptied, a line removed,
\* a line's value changed, or a line added
Edits(files, q) ==
    { [files EXCEPT ![q] = << >>] }
    \cup { [files EXCEPT ![q] = RemoveLine(files[q], k)] : k \in 1..Len(files[q]) }
    \cup { [files EXCEPT ![q][p[1]].Value = p[2]] : p \in (1..Len(files[q])) \X FileValues }
    \cup { AddLine(files, q, p[1], p[2]) : p \in (FileDates \ DatesOf(files[q])) \X FileValues }

\* the dates and rolling sums of region r, in table order, that a call with the
\* table t and the regions regs computes
RollingOf(t, regs, r) ==
    LET rows == SelectSeq(Rolled(t, regs, window, DocumentedOrder),
                          LAMBDA row : row.region = r)
    IN  [k \in 1..Len(rows) |-> <<rows[k].date, rows[k].rolling_sum>>]

\* C9: the rolling sums of a retained region r are the same whether the other
\* regions' observations are there, gone, changed or placed elsewhere in the
\* table, and whichever other regions are asked for with r.  (Neither years nor
\* baseline enters a rolling sum: the other inputs are tried once for each table,
\* regions and window, in the state where years and baseline are the latest year.)
C9_RollingPerRegion ==
    Scoring =>
        \A r \in Range(regions) :
            LET mine == RollingOf(df[1], regions, r)
            IN  /\ \A k \in 1..Len(filtered[1]) :
                      filtered[1][k].region = r =>
                          \E j \in 1..Len(mine) :
                              mine[j] = <<filtered[1][k].date, filtered[1][k].rolling_sum>>
                /\ (years = baseline /\ years[1] = years[2]) =>
                      /\ \A q \in RegionKeys \ {r} :
                            \A files \in Edits(source, q) :
                                RollingOf(get_data(files), regions, r) = mine
                      /\ \A o \in RegionOrders :
                            RollingOf(LoadInOrder(source, o), regions, r) = mine
                      /\ \A regs \in { l \in RegionLists : r \in Range(l) } :
                            RollingOf(df[1], regs, r) = mine

\* C9 witness: two regions asked for, both with observations, the rolling sums
\* of one of them returned
C9_Witness ==
    /\ Scoring
    /\ years = baseline
    /\ years[1] = years[2]
    /\ Len(regions) = 2
    /\ \A r \in RegionKeys : source[r] # << >>
    /\ \E k \in 1..Len(filtered[1]) :
          /\ ~filtered[1][k].rolling_sum.nan
          /\ Cardinality(ObsInWindow(source, filtered[1][k].region,
                                     filtered[1][k].date, window)) >= 2

-----------------------------------------------------------------------------
\* C10: get_data is all or nothing.  A call that fails returns no table and
\* stores nothing: the cache is empty or holds the table of every region of
\* region_dict; and a call after a failure starts over, its frames being those
\* of the regions it has read itself, in region_dict order.
C10_AllOrNothing ==
    /\ cache = << >> \/ cache = <<get_data(source)>>
    /\ df = << >> \/ df = cache
    /\ pc = "failed" => (cache = << >> /\ df = << >> /\ dfs = << >>)
    /\ pc = "start" => dfs = << >>
    /\ pc = "fetch" =>
          /\ cache = << >>
          /\ Len(dfs) = i - 1
          /\ \A k \in 1..Len(dfs) : dfs[k] = ReadCsv(region_dict[k], source[region_dict[k]])
    /\ pc = "ready" => (df # << >> /\ cache # << >>)

\* C10 witness: a read has failed after a region with observations was read
C10_Witness ==
    /\ pc = "failed"
    /\ i > 1
    /\ source[region_dict[1]] # << >>
    /\ source[region_dict[i]] # << >>

====
